---- MODULE Spec2Model ----
(***************************************************************************)
(* DataSentinel: the normalization pipeline (routes/normalization.py), the  *)
(* profiling / drift engine (routes/profiling.py) and the two HTTP handlers  *)
(* that drive them (app/main.py), over an S3-like blob store.                *)
(*                                                                           *)
(* Data model.  A dataset (pandas DataFrame) is a sequence of columns, a     *)
(* column is a record [name, dtype, vals].  A numeric cell is an exact       *)
(* rational <<n, d>> with d >= 1 in lowest terms, NaN is <<0, 0>>.  A text   *)
(* cell is <<string>>, the missing text cell is NA = <<>>.  A datetime cell  *)
(* is <<year, month, day>>, the missing one is NaT.  Column names and blob   *)
(* paths are sequences of lexemes, so that formatting and replacing act on   *)
(* them.                                                                     *)
(***************************************************************************)
EXTENDS Integers, Sequences, FiniteSets, TLC

VARIABLES
    store,      \* blob store: function from existing object paths to bodies
    n_pc,       \* normalize invocation: position in normalize_handler/normalize_file
    n_name,     \* normalize invocation: the "name" of the request (object key)
    n_df,       \* normalize invocation: the DataFrame being transformed
    n_aux,      \* normalize invocation: its locals (s3_path, outliers, output_path) and, for
                \* the properties, the frame as loaded (input) and before the last stage (prev)
    n_resp,     \* normalize invocation: the HTTP response
    p_pc,       \* profile invocation: position in generate_profile
    p_req,      \* profile invocation: the request (current_blob, baseline_blob)
    p_aux,      \* profile invocation: current_df, baseline_df and the reports built
    p_resp,     \* profile invocation: the HTTP response
    d_pc,       \* drift computation: position in detect_drift
    d_in,       \* drift computation: its two input datasets
    d_out,      \* drift computation: its result (report or raised error)
    n2_pc,      \* a second, concurrent normalize_file call: its position
    n2_path,    \* second call: the s3_path it was given
    n2_df,      \* second call: its working DataFrame
    n2_aux,     \* second call: the frame it loaded and the method it selected
    n2_resp     \* second call: what it returned or raised

vars == <<store, n_pc, n_name, n_df, n_aux, n_resp, p_pc, p_req, p_aux, p_resp,
          d_pc, d_in, d_out, n2_pc, n2_path, n2_df, n2_aux, n2_resp>>

-----------------------------------------------------------------------------
(* Exact arithmetic on float cells.                                          *)

Abs(x) == IF x < 0 THEN -x ELSE x

RECURSIVE GCD(_, _)
GCD(a, b) == IF b = 0 THEN a ELSE GCD(b, a % b)

NaN == <<0, 0>>

IsNaN(x) == x[2] = 0

Rat(n, d) ==
    IF d = 0 THEN NaN
    ELSE LET g == GCD(Abs(n), Abs(d))
             s == IF d < 0 THEN -1 ELSE 1
         IN  <<(s * n) \div g, (s * d) \div g>>

Num(n) == <<n, 1>>

RAdd(a, b) == Rat(a[1] * b[2] + b[1] * a[2], a[2] * b[2])
RSub(a, b) == Rat(a[1] * b[2] - b[1] * a[2], a[2] * b[2])
RMul(a, b) == Rat(a[1] * b[1], a[2] * b[2])
\* a / b as IEEE gives it where the pipeline divides: x / 0 is not finite
RDiv(a, b) == Rat(a[1] * b[2], a[2] * b[1])

\* comparisons with NaN are False, as in IEEE 754
RLt(a, b) == ~IsNaN(a) /\ ~IsNaN(b) /\ a[1] * b[2] < b[1] * a[2]
RLe(a, b) == ~IsNaN(a) /\ ~IsNaN(b) /\ a[1] * b[2] <= b[1] * a[2]
RGt(a, b) == RLt(b, a)
RGe(a, b) == RLe(b, a)

-----------------------------------------------------------------------------
(* Sequences.                                                                *)

Range(s) == {s[i] : i \in DOMAIN s}

\* Series.dropna() of a numeric column
DropNaN(vals) == SelectSeq(vals, LAMBDA x : ~IsNaN(x))

Count(s, P(_)) == Len(SelectSeq(s, P))

\* ascending sort of NaN-free rationals: the k-th cell is the value with fewer
\* than k cells below it and at least k cells not above it
SortRat(s) ==
    [k \in 1..Len(s) |->
        CHOOSE v \in Range(s) :
            /\ Count(s, LAMBDA w : RLt(w, v)) < k
            /\ k <= Count(s, LAMBDA w : RLe(w, v))]

RECURSIVE SumRat(_)
SumRat(s) ==
    IF s = <<>> THEN Num(0)
    ELSE IF Len(s) = 1 THEN s[1]
    ELSE LET half == Len(s) \div 2
         IN  RAdd(SumRat(SubSeq(s, 1, half)), SumRat(SubSeq(s, half + 1, Len(s))))

-----------------------------------------------------------------------------
(* Bounds of the model.                                                      *)

\* row counts 1..MaxSmallRows are enumerated cell by cell
MaxSmallRows == 2
\* the long datasets have BigRows rows: a free prefix followed by one repeated row
BigRows == 20
\* largest number drawn for a numeric input cell
MaxVal == 2
\* the datasets large enough for the normality test have HugeRows rows: their
\* 10% sample holds more than 8 rows
HugeRows == 90

-----------------------------------------------------------------------------
(* DataFrame model.                                                          *)

NA == <<>>              \* a missing cell of an object column (NaN / None)
NaT == <<0, 0, 0>>      \* a missing cell of a datetime64 column

NumberDtypes == {"int64", "float64", "float32"}     \* np.number
IsNumber(col) == col.dtype \in NumberDtypes

IsMissing(col, v) ==
    IF IsNumber(col) THEN IsNaN(v)
    ELSE IF col.dtype = "datetime64" THEN v = NaT
    ELSE v = NA

NRows(df) == IF df = <<>> THEN 0 ELSE Len(df[1].vals)

ColNames(df) == [i \in DOMAIN df |-> df[i].name]

HasCol(df, name) == \E i \in DOMAIN df : df[i].name = name

Col(df, name) == df[CHOOSE i \in DOMAIN df : df[i].name = name]

\* the text values of the model in the order sorted() / np.unique put them
TextOrder == <<"2020-01-01", "2021-02-03", "a", "b", "c", "d", "e", "f", "g", "h",
               "i", "j", "k", "nan">>

RECURSIVE SortedTexts(_, _)
\* the text cells of set S in TextOrder, from position i on
SortedTexts(S, i) ==
    IF i > Len(TextOrder) THEN <<>>
    ELSE IF <<TextOrder[i]>> \in S THEN <<<<TextOrder[i]>>>> \o SortedTexts(S, i + 1)
    ELSE SortedTexts(S, i + 1)

IndexOf(seq, x) == CHOOSE i \in DOMAIN seq : seq[i] = x

\* str(i) for the indices the encoder produces, as lexemes
Digits(i) == IF i < 10 THEN <<ToString(i)>> ELSE <<ToString(i \div 10), ToString(i % 10)>>

-----------------------------------------------------------------------------
(* normalize_file, missing-value repair (normalization.py 143-152).          *)

\* df.dropna(axis=1, how="all") without inplace=True: the result is discarded
DropAllNaColumnsNotInPlace(df) == df

\* df.dropna(axis=1, how="all", inplace=True)
DropAllNaColumns(df) ==
    SelectSeq(df, LAMBDA col : \E i \in DOMAIN col.vals : ~IsMissing(col, col.vals[i]))

\* pd.to_datetime(value, errors="coerce") of one object cell
ToDatetime(s) ==
    CASE s = <<"2020-01-01">> -> <<2020, 1, 1>>
      [] s = <<"2021-02-03">> -> <<2021, 2, 3>>
      [] OTHER -> NaT

\* the date coercion loop of normalize_file
CoerceDates(df) ==
    [i \in DOMAIN df |->
        IF df[i].dtype = "object"
        THEN LET converted == [r \in DOMAIN df[i].vals |-> ToDatetime(df[i].vals[r])]
                 parsed == Count(converted, LAMBDA v : v # NaT)
             IN  IF 2 * parsed > NRows(df)
                 THEN [df[i] EXCEPT !.dtype = "datetime64", !.vals = converted]
                 ELSE df[i]
        ELSE df[i]]

\* Series.quantile(q) with q = qn/qd: linear interpolation over the present values
Quantile(vals, qn, qd) ==
    LET s == SortRat(DropNaN(vals))
        n == Len(s)
    IN  IF n = 0 THEN NaN
        ELSE LET lo == ((n - 1) * qn) \div qd
                 frac == Rat(((n - 1) * qn) % qd, qd)
             IN  IF lo + 1 >= n THEN s[n]
                 ELSE RAdd(s[lo + 1], RMul(RSub(s[lo + 2], s[lo + 1]), frac))

\* Series.median(): skips NaN, NaN for a column without values
Median(vals) == Quantile(vals, 1, 2)

\* df[numeric_cols] = df[numeric_cols].fillna(df[numeric_cols].median())
FillMedian(df) ==
    [i \in DOMAIN df |->
        IF IsNumber(df[i])
        THEN LET m == Median(df[i].vals)
             IN  [df[i] EXCEPT !.vals = [r \in DOMAIN df[i].vals |->
                                            IF IsNaN(df[i].vals[r]) THEN m
                                            ELSE df[i].vals[r]]]
        ELSE df[i]]

Repair(df) == FillMedian(CoerceDates(DropAllNaColumns(df)))

-----------------------------------------------------------------------------
(* Outliers (normalization.py 54-93).                                        *)

OutlierThreshold == 5       \* clean_or_winsorize(threshold=5), in percent
MinNormaltestRows == 8      \* normaltest runs on more than 8 sampled values

\* the k * IQR fences around the quartiles, k = kn/kd
Fences(vals, kn, kd) ==
    LET Q1 == Quantile(vals, 1, 4)
        Q3 == Quantile(vals, 3, 4)
        IQR == RSub(Q3, Q1)
    IN  [lower |-> RSub(Q1, RMul(Rat(kn, kd), IQR)),
         upper |-> RAdd(Q3, RMul(Rat(kn, kd), IQR))]

\* mask = (df[col] < lower) | (df[col] > upper), threshold = 1.5
IqrMask(vals) ==
    LET f == Fences(vals, 3, 2)
    IN  [r \in DOMAIN vals |-> RLt(vals[r], f.lower) \/ RGt(vals[r], f.upper)]

\* mask = abs((df[col] - mean) / std) > threshold with the sample std (ddof = 1):
\* for std > 0 this is 4 (x - mean)^2 > 9 var; std = 0 or NaN compares False
ZscoreMask(vals) ==
    LET present == DropNaN(vals)
        n == Len(present)
        mean == RDiv(SumRat(present), Num(n))
        sq == [r \in DOMAIN present |->
                  RMul(RSub(present[r], mean), RSub(present[r], mean))]
        var == RDiv(SumRat(sq), Num(n - 1))
    IN  [r \in DOMAIN vals |->
            /\ RGt(var, Num(0))
            /\ RGt(RMul(Num(4), RMul(RSub(vals[r], mean), RSub(vals[r], mean))),
                   RMul(Num(9), var))]

OutlierMask(vals, method) == IF method = "iqr" THEN IqrMask(vals) ELSE ZscoreMask(vals)

\* round(0.1 * n), Python's round-half-to-even: the rows df.sample(frac=0.1) draws
SampleSize(n) ==
    LET q == n \div 10
        r == n % 10
    IN  IF r < 5 THEN q
        ELSE IF r > 5 THEN q + 1
        ELSE IF q % 2 = 0 THEN q ELSE q + 1

\* What line 61 yields for one numeric column.  Which rows df.sample draws is
\* not computed, and neither is scipy's normaltest, so every outcome some
\* sample allows is possible: "untested" (np.nan, at most 8 present values in
\* the sample), "low" (p <= 0.05), "high" (p > 0.05), and "nan" for a sample
\* of more than 8 equal values, on which normaltest gives NaN (a p-value in
\* older scipy).
PvalOutcomes(df, col) ==
    LET size == SampleSize(NRows(df))
        present == DropNaN(col.vals)
        missing == NRows(df) - Len(present)
        can == size > MinNormaltestRows /\ Len(present) > MinNormaltestRows
        must == size - (IF missing < size THEN missing ELSE size) > MinNormaltestRows
        constant == \E v \in Range(present) :
                        LET cnt == Count(present, LAMBDA w : w = v)
                        IN  cnt > MinNormaltestRows /\ cnt + missing >= size
    IN  (IF must THEN {} ELSE {"untested"})
            \cup (IF can THEN {"low", "high"} ELSE {})
            \cup (IF can /\ constant THEN {"nan"} ELSE {})

\* the outcomes of line 61 for the numeric columns of df, in their order
PvalChoices(df) ==
    LET numeric == SelectSeq(df, IsNumber)
    IN  {p \in [DOMAIN numeric -> {"untested", "nan", "low", "high"}] :
            \A i \in DOMAIN numeric : p[i] \in PvalOutcomes(df, numeric[i])}

\* lines 62-64 with "any" for "all"
SelectMethodAny(pvals) ==
    LET normality_pvals == {i \in DOMAIN pvals : pvals[i] \in {"low", "high"}}
    IN  IF normality_pvals # {} /\ \E i \in normality_pvals : pvals[i] = "high"
        THEN "zscore" ELSE "iqr"

\* lines 62-64: .dropna() drops the untested columns and the NaN p-values;
\* "zscore" if not normality_pvals.empty and (normality_pvals > 0.05).all()
SelectMethod(pvals) ==
    LET normality_pvals == {i \in DOMAIN pvals : pvals[i] \in {"low", "high"}}
    IN  IF normality_pvals # {} /\ \A i \in normality_pvals : pvals[i] = "high"
        THEN "zscore" ELSE "iqr"

\* the methods detect_outliers(method=None) can select
MethodChoices(df) == {SelectMethod(pvals) : pvals \in PvalChoices(df)}

\* outlier_percentages[col] = (mask.sum() / len(df)) * 100, one entry per numeric column
DetectOutliers(df, method) ==
    LET numeric == SelectSeq(df, IsNumber)
    IN  [i \in DOMAIN numeric |->
            [col |-> numeric[i].name,
             pct |-> Rat(100 * Count(OutlierMask(numeric[i].vals, method),
                                     LAMBDA b : b),
                         NRows(df))]]

\* Series.where(cond): the cell where cond holds, NaN elsewhere
WhereInFences(vals) ==
    LET f == Fences(vals, 3, 2)
    IN  [r \in DOMAIN vals |->
            IF RGe(vals[r], f.lower) /\ RLe(vals[r], f.upper) THEN vals[r] ELSE NaN]

\* scipy.stats.mstats.winsorize(a, limits=(0.05, 0.05)): with k = int(0.05 n) and the
\* argsort order (NaN last), the k lowest cells become the (k+1)-th smallest and
\* the k highest the (n-k)-th smallest
Winsorize(vals) ==
    LET n == Len(vals)
        k == (5 * n) \div 100
        nans == SelectSeq(vals, IsNaN)
        sorted == SortRat(DropNaN(vals)) \o nans
    IN  IF k = 0 THEN vals
        ELSE LET lowv == sorted[k + 1]
                 upv == sorted[n - k]
             IN  [r \in DOMAIN vals |->
                    IF IsNaN(vals[r]) THEN upv
                    ELSE IF RLt(vals[r], lowv) THEN lowv
                    ELSE IF RGt(vals[r], upv) THEN upv
                    ELSE vals[r]]

\* the dtype of a column after cells were set to NaN: an int64 column becomes float64
DtypeWithNaN(dtype, vals) ==
    IF dtype = "int64" /\ \E r \in DOMAIN vals : IsNaN(vals[r]) THEN "float64" ELSE dtype

\* the body of the loop of clean_or_winsorize for one column
CleanColumn(col, pct) ==
    IF ~IsNumber(col) THEN col
    ELSE LET vals == IF RLe(pct, Num(OutlierThreshold))
                     THEN WhereInFences(col.vals)
                     ELSE Winsorize(col.vals)
         IN  [col EXCEPT !.vals = vals, !.dtype = DtypeWithNaN(col.dtype, vals)]

\* clean_or_winsorize(df, outlier_percentages): every listed column, in place
CleanOrWinsorize(df, outlier_percentages) ==
    [i \in DOMAIN df |->
        IF \E j \in DOMAIN outlier_percentages : outlier_percentages[j].col = df[i].name
        THEN CleanColumn(df[i],
                 outlier_percentages[CHOOSE j \in DOMAIN outlier_percentages :
                                         outlier_percentages[j].col = df[i].name].pct)
        ELSE df[i]]

-----------------------------------------------------------------------------
(* Encoding and scaling (normalization.py 99-117).                           *)

MaxOneHot == 10     \* if unique_vals <= 10: one-hot, else label codes

\* Series.nunique(): the distinct present values
Present(col) == {col.vals[r] : r \in DOMAIN col.vals} \ {NA}

\* OneHotEncoder.categories_[0]: the sorted present values, then NaN when a cell is missing
Categories(col) ==
    SortedTexts(Present(col), 1)
        \o (IF \E r \in DOMAIN col.vals : col.vals[r] = NA THEN <<NA>> ELSE <<>>)

\* f"{col}_{i}"
OneHotName(name, i) == name \o <<"_">> \o Digits(i)

\* pd.DataFrame(enc.fit_transform(df[[col]]), columns=col_names): one float64
\* column per category, 1.0 in the rows of that category
OneHotColumns(col) ==
    LET cats == Categories(col)
    IN  [i \in DOMAIN cats |->
            [name |-> OneHotName(col.name, i - 1),
             dtype |-> "float64",
             vals |-> [r \in DOMAIN col.vals |->
                          IF col.vals[r] = cats[i] THEN Num(1) ELSE Num(0)]]]

\* LabelEncoder().fit_transform(df[col].astype(str)): the position of str(cell)
\* among the sorted distinct strings; a missing cell is the string "nan"
LabelCodes(col) ==
    LET strs == [r \in DOMAIN col.vals |-> IF col.vals[r] = NA THEN <<"nan">>
                                           ELSE col.vals[r]]
        classes == SortedTexts(Range(strs), 1)
    IN  [col EXCEPT !.dtype = "int64",
                    !.vals = [r \in DOMAIN strs |-> Num(IndexOf(classes, strs[r]) - 1)]]

\* one round of the loop with a join that appends the new columns whatever
\* their names
EncodeColumnAppending(df, name) ==
    LET col == Col(df, name)
    IN  IF Cardinality(Present(col)) <= MaxOneHot
        THEN [err |-> "",
              df |-> SelectSeq(df, LAMBDA c : c.name # name) \o OneHotColumns(col)]
        ELSE [err |-> "",
              df |-> [i \in DOMAIN df |-> IF df[i].name = name THEN LabelCodes(col)
                                          ELSE df[i]]]

\* one round of the loop of encode_categorical; DataFrame.join raises ValueError
\* when a new column name is already a column of the frame
EncodeColumn(df, name) ==
    LET col == Col(df, name)
    IN  IF Cardinality(Present(col)) <= MaxOneHot
        THEN LET rest == SelectSeq(df, LAMBDA c : c.name # name)
                 new == OneHotColumns(col)
             IN  IF \E i \in DOMAIN new : HasCol(rest, new[i].name)
                 THEN [err |-> "ValueError", df |-> df]
                 ELSE [err |-> "", df |-> rest \o new]
        ELSE [err |-> "",
              df |-> [i \in DOMAIN df |-> IF df[i].name = name THEN LabelCodes(col)
                                          ELSE df[i]]]

RECURSIVE EncodeLoop(_, _)
EncodeLoop(df, cat_cols) ==
    IF cat_cols = <<>> THEN [err |-> "", df |-> df]
    ELSE LET step == EncodeColumn(df, Head(cat_cols))
         IN  IF step.err # "" THEN step ELSE EncodeLoop(step.df, Tail(cat_cols))

\* encode_categorical(df): cat_cols is taken once, before the loop
EncodeCategorical(df) ==
    EncodeLoop(df, ColNames(SelectSeq(df, LAMBDA c : c.dtype = "object")))

ScaledDtypes == {"float64", "int64"}    \* select_dtypes(include=["float64", "int64"])

RECURSIVE MinRat(_)
MinRat(s) ==
    IF Len(s) = 1 THEN s[1]
    ELSE LET half == Len(s) \div 2
             a == MinRat(SubSeq(s, 1, half))
             b == MinRat(SubSeq(s, half + 1, Len(s)))
         IN  IF RLe(a, b) THEN a ELSE b

RECURSIVE MaxRat(_)
MaxRat(s) ==
    IF Len(s) = 1 THEN s[1]
    ELSE LET half == Len(s) \div 2
             a == MaxRat(SubSeq(s, 1, half))
             b == MaxRat(SubSeq(s, half + 1, Len(s)))
         IN  IF RGe(a, b) THEN a ELSE b

\* The scaler computes in float64, which rounds every result to 53 significant
\* bits (ties to even).  The model rounds the same way to MantissaBits bits: the
\* rounding of r * (1 / r) then agrees with float64 for every range r up to 26
\* and for r = 49, where it is below 1.
MantissaBits == 9

RECURSIVE Pow2(_)
Pow2(k) == IF k = 0 THEN 1 ELSE 2 * Pow2(k - 1)

\* <<a, d, e>> with a / d in [2^(MantissaBits-1), 2^MantissaBits) and
\* (a / d) * 2^e the value given
RECURSIVE Normalised(_, _, _)
Normalised(a, d, e) ==
    IF a \div Pow2(MantissaBits) >= d THEN Normalised(a, 2 * d, e + 1)
    ELSE IF a \div Pow2(MantissaBits - 1) < d
    THEN IF d % 2 = 0 THEN Normalised(a, d \div 2, e - 1)
         ELSE Normalised(2 * a, d, e - 1)
    ELSE <<a, d, e>>

\* the floating-point number nearest to q
Fl(q) ==
    IF IsNaN(q) \/ q[1] = 0 THEN q
    ELSE LET t == Normalised(Abs(q[1]), q[2], 0)
             m == t[1] \div t[2]
             rem == t[1] - m * t[2]
             up == 2 * rem > t[2] \/ (2 * rem = t[2] /\ m % 2 = 1)
             mant == (IF q[1] < 0 THEN 0 - 1 ELSE 1) * (IF up THEN m + 1 ELSE m)
         IN  IF t[3] >= 0 THEN Rat(mant * Pow2(t[3]), 1)
             ELSE Rat(mant, Pow2(0 - t[3]))

\* MinMaxScaler().fit_transform of one column: X * scale_ + min_ with
\* scale_ = 1 / (max - min), 1 when max = min, and min_ = 0 - min * scale_,
\* each operation rounded; NaN cells are ignored by the fit and stay NaN
MinMaxScale(vals) ==
    LET present == DropNaN(vals)
    IN  IF present = <<>> THEN [r \in DOMAIN vals |-> NaN]
        ELSE LET data_min == MinRat(present)
                 data_range == Fl(RSub(MaxRat(present), data_min))
                 scale == IF data_range = Num(0) THEN Num(1)
                          ELSE Fl(RDiv(Num(1), data_range))
                 min_ == Fl(RSub(Num(0), Fl(RMul(data_min, scale))))
             IN  [r \in DOMAIN vals |->
                    IF IsNaN(vals[r]) THEN NaN
                    ELSE Fl(RAdd(Fl(RMul(vals[r], scale)), min_))]

\* scale_numerical(df)
ScaleNumerical(df) ==
    [i \in DOMAIN df |->
        IF df[i].dtype \in ScaledDtypes
        THEN [df[i] EXCEPT !.dtype = "float64", !.vals = MinMaxScale(df[i].vals)]
        ELSE df[i]]

-----------------------------------------------------------------------------
(* Object paths.  A path is a sequence of lexemes; "/" and "." are lexemes   *)
(* of their own, so that split, rsplit, replace and endswith act on it.      *)

S3Scheme == "s3://"

RECURSIVE ReplaceAll(_, _, _)
\* str.replace(old, new): every occurrence, left to right
ReplaceAll(s, old, new) ==
    IF Len(s) < Len(old) \/ old = <<>> THEN s
    ELSE IF SubSeq(s, 1, Len(old)) = old
         THEN new \o ReplaceAll(SubSeq(s, Len(old) + 1, Len(s)), old, new)
         ELSE <<Head(s)>> \o ReplaceAll(Tail(s), old, new)

\* position of the first / last occurrence of lexeme x in s, 0 when absent
FirstPos(s, x) ==
    IF \E i \in DOMAIN s : s[i] = x
    THEN CHOOSE i \in DOMAIN s : s[i] = x /\ \A j \in 1..(i - 1) : s[j] # x
    ELSE 0

LastPos(s, x) ==
    IF \E i \in DOMAIN s : s[i] = x
    THEN CHOOSE i \in DOMAIN s : s[i] = x /\ \A j \in (i + 1)..Len(s) : s[j] # x
    ELSE 0

EndsWith(s, suffix) ==
    Len(s) >= Len(suffix) /\ SubSeq(s, Len(s) - Len(suffix) + 1, Len(s)) = suffix

\* str.lower() of one lexeme
LowerLexeme(x) ==
    CASE x = "CSV" -> "csv"
      [] OTHER -> x

Lower(s) == [i \in DOMAIN s |-> LowerLexeme(s[i])]

\* f"s3://{bucket}/{name}"
S3Path(bucket, name) == <<S3Scheme>> \o bucket \o <<"/">> \o name

\* s3_path.replace("s3://", "").split("/", 1): the pair unpacks only when there is a "/"
SplitBucketKey(s3_path) ==
    LET rest == ReplaceAll(s3_path, <<S3Scheme>>, <<>>)
        cut == FirstPos(rest, "/")
    IN  IF cut = 0 THEN [ok |-> FALSE, bucket |-> rest, key |-> <<>>]
        ELSE [ok |-> TRUE, bucket |-> SubSeq(rest, 1, cut - 1),
              key |-> SubSeq(rest, cut + 1, Len(rest))]

\* the key of the blob store for (bucket, key)
ObjectKey(bucket, key) == bucket \o <<"/">> \o key

\* key.split(".")[-1].lower()
Extension(key) == Lower(SubSeq(key, LastPos(key, ".") + 1, Len(key)))

\* s.rsplit(".", 1)[0]
RsplitDotHead(s) == IF LastPos(s, ".") = 0 THEN s ELSE SubSeq(s, 1, LastPos(s, ".") - 1)

\* s3_path.replace("raw/", "normalized/").rsplit(".", 1)[0] + "_normalized.parquet"
OutputPath(s3_path) ==
    RsplitDotHead(ReplaceAll(s3_path, <<"raw", "/">>, <<"normalized", "/">>))
        \o <<"_normalized", ".", "parquet">>

\* the extensions load_file_from_s3 reads
LoadableExtensions == {<<"csv">>, <<"xlsx">>, <<"xls">>, <<"parquet">>}

\* SUPPORTED_EXTENSIONS = [".csv", ".parquet", ".xlsx"] of main.py
SUPPORTED_EXTENSIONS == {<<".", "csv">>, <<".", "parquet">>, <<".", "xlsx">>}

-----------------------------------------------------------------------------
(* Blob store (boto3 client).                                                *)

Table(df) == [kind |-> "table", df |-> df]

\* the store without objects
NoStore == [k \in {} |-> Table(<<>>)]

\* s3.put_object / upload: the object is created or overwritten
Put(st, key, body) == [k \in DOMAIN st \cup {key} |-> IF k = key THEN body ELSE st[k]]

\* file_exists_s3 / head_object
Exists(st, key) == key \in DOMAIN st

\* whether a put reaches the store; a failed put raises ClientError
PutOutcomes == BOOLEAN

-----------------------------------------------------------------------------
(* The normalize invocation: normalize_handler (main.py 158-176) calling     *)
(* normalize_file (normalization.py 139-163), or normalize_file called as    *)
(* the library operation.                                                    *)

\* The dataset object a stage function was called with, as its caller sees it
\* after the call.  clean_or_winsorize assigns df[col] = ... into the object it
\* was given and returns that object (lines 89, 91, 93)
CleanOrWinsorizeArg(df, outlier_percentages) == CleanOrWinsorize(df, outlier_percentages)

\* encode_categorical assigns the label codes into the object it was given
\* (line 109) until the first one-hot column rebinds df to the new frame that
\* drop().join() builds (line 107)
RECURSIVE EncodeArgLoop(_, _)
EncodeArgLoop(df, cat_cols) ==
    IF cat_cols = <<>> THEN df
    ELSE IF Cardinality(Present(Col(df, Head(cat_cols)))) <= MaxOneHot THEN df
    ELSE EncodeArgLoop(EncodeColumn(df, Head(cat_cols)).df, Tail(cat_cols))

EncodeCategoricalArg(df) ==
    EncodeArgLoop(df, ColNames(SelectSeq(df, LAMBDA c : c.dtype = "object")))

\* scale_numerical assigns df[num_cols] = ... into the object it was given (line 116)
ScaleNumericalArg(df) == ScaleNumerical(df)

NoResp == [status |-> 0, outcome |-> "", error |-> "", output_path |-> <<>>]

\* an exception leaves the invocation: FastAPI answers 500 for the handler,
\* the library call raises
Raised(entry, error) ==
    [status |-> IF entry = "handler" THEN 500 ELSE 0,
     outcome |-> "error", error |-> error, output_path |-> <<>>]

NormalizeFails(error) ==
    /\ n_resp' = Raised(n_aux.entry, error)
    /\ n_pc' = "done"

\* normalize_handler up to the call of normalize_file
NormalizeHandler ==
    /\ n_pc = "request"
    /\ IF n_name = <<>> \/ n_aux.bucket = <<>>
       THEN /\ n_resp' = [NoResp EXCEPT !.status = 400, !.outcome = "bad_request"]
            /\ n_pc' = "done"
            /\ UNCHANGED n_aux
       ELSE IF ~\E ext \in SUPPORTED_EXTENSIONS : EndsWith(n_name, ext)
       THEN /\ n_resp' = [NoResp EXCEPT !.status = 200, !.outcome = "ignored"]
            /\ n_pc' = "done"
            /\ UNCHANGED n_aux
       ELSE IF ~Exists(store, ObjectKey(n_aux.bucket, n_name))
       THEN /\ n_resp' = [NoResp EXCEPT !.status = 404, !.outcome = "not_found"]
            /\ n_pc' = "done"
            /\ UNCHANGED n_aux
       ELSE /\ n_aux' = [n_aux EXCEPT !.s3_path = S3Path(n_aux.bucket, n_name)]
            /\ n_pc' = "load"
            /\ UNCHANGED n_resp
    /\ UNCHANGED <<store, n_name, n_df>>

\* load_file_from_s3(s3_path)
LoadFile ==
    /\ n_pc = "load"
    /\ LET bk == SplitBucketKey(n_aux.s3_path)
           obj == ObjectKey(bk.bucket, bk.key)
       IN  IF ~bk.ok
           THEN NormalizeFails("ValueError") /\ UNCHANGED <<n_df, n_aux>>
           ELSE IF ~Exists(store, obj)
           THEN NormalizeFails("ClientError") /\ UNCHANGED <<n_df, n_aux>>
           ELSE IF Extension(bk.key) \notin LoadableExtensions
           THEN NormalizeFails("Unsupported file type") /\ UNCHANGED <<n_df, n_aux>>
           ELSE IF store[obj].kind # "table"
           THEN NormalizeFails("ParserError") /\ UNCHANGED <<n_df, n_aux>>
           ELSE /\ n_df' = store[obj].df
                /\ n_aux' = [n_aux EXCEPT !.input = store[obj].df]
                /\ n_pc' = "repair"
                /\ UNCHANGED n_resp
    /\ UNCHANGED <<store, n_name>>

\* normalize_file lines 143-152
RepairStep ==
    /\ n_pc = "repair"
    /\ n_df' = Repair(n_df)
    /\ n_aux' = [n_aux EXCEPT !.prev = n_df]
    /\ n_pc' = "detect"
    /\ UNCHANGED <<store, n_name, n_resp>>

\* outliers = detect_outliers(df)
DetectStep ==
    /\ n_pc = "detect"
    /\ \E pvals \in PvalChoices(n_df) :
          n_aux' = [n_aux EXCEPT !.pvals = pvals,
                                 !.method = SelectMethod(pvals),
                                 !.outliers = DetectOutliers(n_df, SelectMethod(pvals))]
    /\ n_pc' = "clean"
    /\ UNCHANGED <<store, n_name, n_df, n_resp>>

\* df = clean_or_winsorize(df, outliers)
CleanStep ==
    /\ n_pc = "clean"
    /\ n_df' = CleanOrWinsorize(n_df, n_aux.outliers)
    /\ n_aux' = [n_aux EXCEPT !.prev = n_df,
                              !.arg = CleanOrWinsorizeArg(n_df, n_aux.outliers)]
    /\ n_pc' = "encode"
    /\ UNCHANGED <<store, n_name, n_resp>>

\* df = encode_categorical(df)
EncodeStep ==
    /\ n_pc = "encode"
    /\ LET enc == EncodeCategorical(n_df)
       IN  IF enc.err # ""
           THEN NormalizeFails(enc.err) /\ UNCHANGED <<n_df, n_aux>>
           ELSE /\ n_df' = enc.df
                /\ n_aux' = [n_aux EXCEPT !.prev = n_df,
                                          !.arg = EncodeCategoricalArg(n_df)]
                /\ n_pc' = "scale"
                /\ UNCHANGED n_resp
    /\ UNCHANGED <<store, n_name>>

\* df = scale_numerical(df)
ScaleStep ==
    /\ n_pc = "scale"
    /\ n_df' = ScaleNumerical(n_df)
    /\ n_aux' = [n_aux EXCEPT !.prev = n_df, !.arg = ScaleNumericalArg(n_df)]
    /\ n_pc' = "save"
    /\ UNCHANGED <<store, n_name, n_resp>>

\* output_path = ...; save_parquet_to_s3(df, output_path)
SaveStep ==
    /\ n_pc = "save"
    /\ LET output_path == OutputPath(n_aux.s3_path)
           bk == SplitBucketKey(output_path)
       IN  IF ~bk.ok
           THEN NormalizeFails("ValueError") /\ UNCHANGED <<store, n_aux>>
           ELSE \E put_ok \in PutOutcomes :
                   IF put_ok
                   THEN /\ store' = Put(store, ObjectKey(bk.bucket, bk.key), Table(n_df))
                        /\ n_aux' = [n_aux EXCEPT !.output_path = output_path]
                        /\ n_pc' = "return"
                        /\ UNCHANGED n_resp
                   ELSE NormalizeFails("ClientError") /\ UNCHANGED <<store, n_aux>>
    /\ UNCHANGED <<n_name, n_df>>

\* return output_path, and the handler's "Normalization complete" answer
ReturnStep ==
    /\ n_pc = "return"
    /\ n_resp' = [NoResp EXCEPT !.status = IF n_aux.entry = "handler" THEN 200 ELSE 0,
                                !.outcome = "success",
                                !.output_path = n_aux.output_path]
    /\ n_pc' = "done"
    /\ UNCHANGED <<store, n_name, n_df, n_aux>>

-----------------------------------------------------------------------------
(* A second normalize_file call running beside the first one.  Its stages    *)
(* between the load and the save touch only its own DataFrame, so they are   *)
(* taken in one step; the load and the save are the steps on the store.      *)

\* load_file_from_s3(s3_path) on store st: [err, df]
LoadFileFromS3(st, s3_path) ==
    LET bk == SplitBucketKey(s3_path)
        obj == ObjectKey(bk.bucket, bk.key)
    IN  IF ~bk.ok THEN [err |-> "ValueError", df |-> <<>>]
        ELSE IF ~Exists(st, obj) THEN [err |-> "ClientError", df |-> <<>>]
        ELSE IF Extension(bk.key) \notin LoadableExtensions
        THEN [err |-> "Unsupported file type", df |-> <<>>]
        ELSE IF st[obj].kind # "table" THEN [err |-> "ParserError", df |-> <<>>]
        ELSE [err |-> "", df |-> st[obj].df]

NoAux2 == [input |-> <<>>, method |-> "", outliers |-> <<>>]

Normalize2Fails(error) ==
    /\ n2_resp' = Raised("direct", error)
    /\ n2_pc' = "done"

\* df = load_file_from_s3(s3_path)
Normalize2Load ==
    /\ n2_pc = "load"
    /\ LET got == LoadFileFromS3(store, n2_path)
       IN  IF got.err # ""
           THEN Normalize2Fails(got.err) /\ UNCHANGED <<n2_df, n2_aux>>
           ELSE /\ n2_df' = got.df
                /\ n2_aux' = [n2_aux EXCEPT !.input = got.df]
                /\ n2_pc' = "repair"
                /\ UNCHANGED n2_resp
    /\ UNCHANGED <<store, n2_path>>

\* normalize_file lines 143-152
Normalize2Repair ==
    /\ n2_pc = "repair"
    /\ n2_df' = Repair(n2_df)
    /\ n2_pc' = "detect"
    /\ UNCHANGED <<store, n2_path, n2_aux, n2_resp>>

\* outliers = detect_outliers(df)
Normalize2Detect ==
    /\ n2_pc = "detect"
    /\ \E method \in MethodChoices(n2_df) :
          n2_aux' = [n2_aux EXCEPT !.method = method,
                                   !.outliers = DetectOutliers(n2_df, method)]
    /\ n2_pc' = "clean"
    /\ UNCHANGED <<store, n2_path, n2_df, n2_resp>>

\* df = clean_or_winsorize(df, outliers)
Normalize2Clean ==
    /\ n2_pc = "clean"
    /\ n2_df' = CleanOrWinsorize(n2_df, n2_aux.outliers)
    /\ n2_pc' = "encode"
    /\ UNCHANGED <<store, n2_path, n2_aux, n2_resp>>

\* df = encode_categorical(df)
Normalize2Encode ==
    /\ n2_pc = "encode"
    /\ LET enc == EncodeCategorical(n2_df)
       IN  IF enc.err # ""
           THEN Normalize2Fails(enc.err) /\ UNCHANGED n2_df
           ELSE /\ n2_df' = enc.df
                /\ n2_pc' = "scale"
                /\ UNCHANGED n2_resp
    /\ UNCHANGED <<store, n2_path, n2_aux>>

\* df = scale_numerical(df)
Normalize2Scale ==
    /\ n2_pc = "scale"
    /\ n2_df' = ScaleNumerical(n2_df)
    /\ n2_pc' = "save"
    /\ UNCHANGED <<store, n2_path, n2_aux, n2_resp>>

\* save_parquet_to_s3(df, output_path); return output_path
Normalize2Save ==
    /\ n2_pc = "save"
    /\ LET output_path == OutputPath(n2_path)
           bk == SplitBucketKey(output_path)
       IN  IF ~bk.ok
           THEN Normalize2Fails("ValueError") /\ UNCHANGED store
           ELSE \E put_ok \in PutOutcomes :
                   IF put_ok
                   THEN /\ store' = Put(store, ObjectKey(bk.bucket, bk.key), Table(n2_df))
                        /\ n2_resp' = [NoResp EXCEPT !.outcome = "success",
                                                     !.output_path = output_path]
                        /\ n2_pc' = "done"
                   ELSE Normalize2Fails("ClientError") /\ UNCHANGED store
    /\ UNCHANGED <<n2_path, n2_df, n2_aux>>

-----------------------------------------------------------------------------
(* Drift (profiling.py 106-138).  A score (PSI, KS p-value) is a fixed-point *)
(* number in units of 1 / ScoreUnit, one decimal more than the report keeps. *)

ScoreUnit == 100000
ScoreNaN == 0 - 1                       \* the float NaN as a score
PsiThreshold == (2 * ScoreUnit) \div 10   \* psi_score > 0.2
KsThreshold == (5 * ScoreUnit) \div 100   \* ks_pvalue < 0.05
Buckets == 10                           \* calculate_psi(buckets=10)

\* how far around a threshold the scores of unequal samples are drawn
Spread == 5

\* pd.api.types.is_numeric_dtype
IsNumericDtype(col) == col.dtype \in NumberDtypes

\* Series.dropna()
DropMissing(col) == SelectSeq(col.vals, LAMBDA v : ~IsMissing(col, v))

\* the bin of x in np.histogram(a, bins=10): ten equal bins over [min, max], the
\* last one closed; over [min - 0.5, max + 0.5] when min = max
BinOf(x, lo, hi) ==
    IF lo = hi THEN Buckets \div 2
    ELSE IF x = hi THEN Buckets - 1
    ELSE LET t == RDiv(RMul(RSub(x, lo), Num(Buckets)), RSub(hi, lo))
         IN  t[1] \div t[2]

\* scale_bins(series): np.histogram(series, bins=buckets)[0] / len(series)
ScaleBins(present) ==
    [b \in 0..(Buckets - 1) |->
        Rat(Count(present, LAMBDA x : BinOf(x, MinRat(present), MaxRat(present)) = b),
            Len(present))]

\* whether the two samples have the same empirical distribution function, which
\* is when the KS statistic is 0
SameEcdf(a, b) ==
    \A t \in Range(a) \cup Range(b) :
        Count(a, LAMBDA x : RLe(x, t)) * Len(b) = Count(b, LAMBDA x : RLe(x, t)) * Len(a)

\* the scores drawn for a quantity that the model does not compute: the values
\* within Spread of the threshold, a small one and 1.0
ScoresAround(threshold) ==
    {s \in (threshold - Spread)..(threshold + Spread) : s > 0} \cup {1, ScoreUnit}

\* calculate_psi(expected, actual): [err, scores].  np.histogram raises TypeError
\* on strings; a sample without values gives 0/0 = NaN fractions and a NaN sum;
\* equal fractions give (e - a) * log(1) = 0 in every bin; unequal fractions give
\* a positive sum of logarithms, drawn from ScoresAround
CalculatePsi(expected, actual) ==
    LET e == DropMissing(expected)
        a == DropMissing(actual)
    IN  IF (e # <<>> /\ ~IsNumericDtype(expected)) \/ (a # <<>> /\ ~IsNumericDtype(actual))
        THEN [err |-> "TypeError", scores |-> {}]
        ELSE IF e = <<>> \/ a = <<>> THEN [err |-> "", scores |-> {ScoreNaN}]
        ELSE IF ScaleBins(e) = ScaleBins(a) THEN [err |-> "", scores |-> {0}]
        ELSE [err |-> "", scores |-> ScoresAround(PsiThreshold)]

\* ks_2samp(a, b).pvalue, outcome by outcome: an empty sample raises ValueError in
\* the scipy releases that check it and gives NaN in the later ones; a statistic
\* of 0 gives 1.0; any other p-value is drawn from ScoresAround
Ks2SampOutcomes(baseline_col, current_col) ==
    LET a == DropMissing(baseline_col)
        b == DropMissing(current_col)
    IN  IF a = <<>> \/ b = <<>>
        THEN {[err |-> "ValueError", p |-> ScoreNaN], [err |-> "", p |-> ScoreNaN]}
        ELSE IF SameEcdf(a, b) THEN {[err |-> "", p |-> ScoreUnit]}
        ELSE {[err |-> "", p |-> s] : s \in ScoresAround(KsThreshold)}

\* round(score, 4): to the nearest multiple of 10 units, ties to the even one
Round4(s) ==
    IF s = ScoreNaN THEN ScoreNaN
    ELSE LET q == s \div 10
             r == s % 10
         IN  IF r < 5 THEN 10 * q
             ELSE IF r > 5 THEN 10 * (q + 1)
             ELSE IF q % 2 = 0 THEN 10 * q ELSE 10 * (q + 1)

\* the flag with >= for >
PsiFlagAtLeast(psi_score) == psi_score # ScoreNaN /\ psi_score >= PsiThreshold

\* psi_score > 0.2 and ks_pvalue < 0.05 on floats: False for NaN
PsiFlag(psi_score) == psi_score # ScoreNaN /\ psi_score > PsiThreshold
KsFlag(ks_pvalue) == ks_pvalue # ScoreNaN /\ ks_pvalue < KsThreshold

\* drift_results[col] = {...}
DriftEntry(col, psi_score, ks_pvalue) ==
    [col |-> col,
     psi_score |-> Round4(psi_score),
     drift_by_psi |-> PsiFlag(psi_score),
     ks_p_value |-> Round4(ks_pvalue),
     drift_by_ks |-> KsFlag(ks_pvalue)]

\* common_cols = [col for col in baseline_df.columns if col in current_df.columns]
CommonCols(baseline_df, current_df) ==
    ColNames(SelectSeq(baseline_df, LAMBDA c : HasCol(current_df, c.name)))

\* detect_drift up to the loop
DriftStart ==
    /\ d_pc = "start"
    /\ d_out' = [common |-> CommonCols(d_in.baseline, d_in.current), next |-> 1,
                 report |-> <<>>, error |-> "",
                 psi |-> <<>>, ks |-> <<>>]
    /\ d_pc' = "loop"
    /\ UNCHANGED d_in

\* one round of the loop of detect_drift; the unrounded scores are kept beside
\* the report (psi, ks) for the properties
DriftColumn ==
    /\ d_pc = "loop"
    /\ d_out.next <= Len(d_out.common)
    /\ LET col == d_out.common[d_out.next]
           baseline_col == Col(d_in.baseline, col)
           current_col == Col(d_in.current, col)
           psi == CalculatePsi(baseline_col, current_col)
       IN  IF ~IsNumericDtype(current_col)
           THEN d_out' = [d_out EXCEPT !.next = @ + 1] /\ d_pc' = "loop"
           ELSE IF psi.err # ""
           THEN d_out' = [d_out EXCEPT !.error = psi.err] /\ d_pc' = "done"
           ELSE \E psi_score \in psi.scores :
                \E ks \in Ks2SampOutcomes(baseline_col, current_col) :
                    IF ks.err # ""
                    THEN d_out' = [d_out EXCEPT !.error = ks.err] /\ d_pc' = "done"
                    ELSE /\ d_out' = [d_out EXCEPT
                                !.next = @ + 1,
                                !.report = Append(@, DriftEntry(col, psi_score, ks.p)),
                                !.psi = Append(@, psi_score),
                                !.ks = Append(@, ks.p)]
                         /\ d_pc' = "loop"
    /\ UNCHANGED d_in

\* return drift_results
DriftReturn ==
    /\ d_pc = "loop"
    /\ d_out.next > Len(d_out.common)
    /\ d_pc' = "done"
    /\ UNCHANGED <<d_in, d_out>>

-----------------------------------------------------------------------------
(* Profiling (profiling.py 43-100) and generate_profile (main.py 130-151).   *)

\* len(str(v)) of a text cell
TextLen(v) ==
    CASE v[1] \in {"2020-01-01", "2021-02-03"} -> 10
      [] v[1] = "nan" -> 3
      [] OTHER -> 1

\* pd.api.types.is_string_dtype(col): an object column is a string column in
\* pandas before 2.0 (legacy); from 2.0 on only when every cell is a str
IsStringDtype(col, legacy) ==
    col.dtype = "object" /\ (legacy \/ \A r \in DOMAIN col.vals : col.vals[r] # NA)

\* col.value_counts().head(5) as the set of <<value, count>>; with more than
\* five values the five most frequent, the earlier in sorted order on a tie
TopValues(col) ==
    LET cnt(v) == Count(col.vals, LAMBDA w : w = v)
        ahead(v) == {w \in Present(col) :
                        \/ cnt(w) > cnt(v)
                        \/ cnt(w) = cnt(v) /\ IndexOf(TextOrder, w[1]) < IndexOf(TextOrder, v[1])}
    IN  {<<v, cnt(v)>> : v \in {w \in Present(col) : Cardinality(ahead(w)) < 5}}

\* col.std(): the sample deviation (ddof = 1), kept as its square, NaN with
\* fewer than two present values
VarianceOf(present) ==
    LET n == Len(present)
        mean == RDiv(SumRat(present), Num(n))
        sq == [r \in DOMAIN present |-> RMul(RSub(present[r], mean), RSub(present[r], mean))]
    IN  IF n < 2 THEN NaN ELSE RDiv(SumRat(sq), Num(n - 1))

\* profile_column(col)
ProfileColumn(col, legacy) ==
    LET present == DropMissing(col)
        nulls == Len(col.vals) - Len(present)
        base == [name |-> col.name,
                 dtype |-> col.dtype,
                 null_count |-> nulls,
                 null_percentage |-> RMul(Rat(nulls, Len(col.vals)), Num(100)),
                 unique_count |-> Cardinality(Range(present))]
        lengths == [r \in DOMAIN present |-> Num(TextLen(present[r]))]
    IN  IF IsNumericDtype(col)
        THEN [kind |-> "numeric", base |-> base,
              min |-> IF present = <<>> THEN NaN ELSE MinRat(present),
              max |-> IF present = <<>> THEN NaN ELSE MaxRat(present),
              mean |-> RDiv(SumRat(present), Num(Len(present))),
              std_squared |-> VarianceOf(present)]
        ELSE IF IsStringDtype(col, legacy)
        THEN [kind |-> "string", base |-> base,
              min_length |-> IF lengths = <<>> THEN Num(0) ELSE MinRat(lengths),
              max_length |-> IF lengths = <<>> THEN Num(0) ELSE MaxRat(lengths),
              avg_length |-> IF lengths = <<>> THEN Num(0)
                             ELSE RDiv(SumRat(lengths), Num(Len(lengths))),
              top_values |-> TopValues(col)]
        ELSE [kind |-> "other", base |-> base]

\* df.duplicated().sum(): the rows equal to an earlier row
DuplicateRows(df) ==
    Cardinality({r \in 1..NRows(df) :
        \E q \in 1..(r - 1) : \A i \in DOMAIN df : df[i].vals[q] = df[i].vals[r]})

\* profile_dataframe(df); memory_usage_mb, a byte count of the process, is left out
ProfileDataframe(df, legacy) ==
    [total_rows |-> NRows(df),
     total_columns |-> Len(df),
     duplicate_rows |-> DuplicateRows(df),
     columns |-> [i \in DOMAIN df |-> ProfileColumn(df[i], legacy)]]

\* os.path.basename(p)
Basename(p) == SubSeq(p, LastPos(p, "/") + 1, Len(p))

\* os.path.splitext(p)[0]: up to the last dot of the last component, leading
\* dots of the component not counting
SplitextRoot(p) ==
    LET b == Basename(p)
        dot == LastPos(b, ".")
    IN  IF dot = 0 \/ \A i \in 1..dot : b[i] = "." THEN p
        ELSE SubSeq(p, 1, Len(p) - Len(b) + dot - 1)

\* f"profiling/{os.path.splitext(os.path.basename(current_blob))[0]}_{tag}.json"
ReportBlob(current_blob, tag) ==
    <<"profiling", "/">> \o SplitextRoot(Basename(current_blob)) \o <<tag, ".", "json">>

Json(data) == [kind |-> "json", data |-> data]

\* json.dumps(data): the flags of a drift entry are numpy.bool_ values, which
\* the encoder rejects with TypeError; the profile holds int, float and str only
JsonDumpsRaises(data) == data.what = "drift" /\ data.report # <<>>

\* load_data(bucket_name, blob_name): [err, df]
LoadData(st, bucket_name, blob_name) ==
    LET obj == ObjectKey(bucket_name, blob_name)
    IN  IF ~Exists(st, obj) THEN [err |-> "ClientError", df |-> <<>>]
        ELSE IF ~(EndsWith(blob_name, <<".", "csv">>) \/ EndsWith(blob_name, <<".", "parquet">>))
        THEN [err |-> "Unsupported file type", df |-> <<>>]
        ELSE IF st[obj].kind # "table" THEN [err |-> "ParserError", df |-> <<>>]
        ELSE [err |-> "", df |-> st[obj].df]

NoProfileAux == [current_df |-> <<>>, profile_result |-> <<>>, baseline_df |-> <<>>,
                 drift_result |-> <<>>, profile_url |-> <<>>, drift_url |-> <<>>,
                 store0 |-> NoStore]

\* an exception leaves generate_profile: FastAPI answers 500
ProfileFails(error) ==
    /\ p_resp' = Raised("handler", error)
    /\ p_pc' = "done"

\* current_df = load_data(bucket, current_blob)
ProfileLoadCurrent ==
    /\ p_pc = "load_current"
    /\ LET got == LoadData(store, p_req.bucket_name, p_req.current_blob)
       IN  IF got.err # ""
           THEN ProfileFails(got.err) /\ UNCHANGED p_aux
           ELSE /\ p_aux' = [p_aux EXCEPT !.current_df = got.df]
                /\ p_pc' = "profile"
                /\ UNCHANGED p_resp
    /\ UNCHANGED <<store, p_req>>

\* profile_result = profile_dataframe(current_df)
ProfileStep ==
    /\ p_pc = "profile"
    /\ \E legacy \in BOOLEAN :
          p_aux' = [p_aux EXCEPT !.profile_result =
                        [what |-> "profile", report |-> ProfileDataframe(p_aux.current_df, legacy)]]
    /\ p_pc' = "upload_profile"
    /\ UNCHANGED <<store, p_req, p_resp>>

\* profile_url = upload_json_to_gcs(profile_result, bucket, profile_blob), and
\* the test of baseline_blob that follows it
ProfileUpload ==
    /\ p_pc = "upload_profile"
    /\ LET profile_blob == ReportBlob(p_req.current_blob, "_profile")
       IN  IF JsonDumpsRaises(p_aux.profile_result)
           THEN ProfileFails("TypeError") /\ UNCHANGED <<store, p_aux>>
           ELSE \E put_ok \in PutOutcomes :
                   IF put_ok
                   THEN /\ store' = Put(store, ObjectKey(p_req.bucket_name, profile_blob),
                                        Json(p_aux.profile_result))
                        /\ p_aux' = [p_aux EXCEPT !.profile_url =
                                        S3Path(p_req.bucket_name, profile_blob)]
                        /\ p_pc' = IF p_req.baseline_blob # <<>> THEN "load_baseline"
                                   ELSE "return"
                        /\ UNCHANGED p_resp
                   ELSE ProfileFails("ClientError") /\ UNCHANGED <<store, p_aux>>
    /\ UNCHANGED p_req

\* baseline_df = load_data(bucket, baseline_blob)
ProfileLoadBaseline ==
    /\ p_pc = "load_baseline"
    /\ LET got == LoadData(store, p_req.bucket_name, p_req.baseline_blob)
       IN  IF got.err # ""
           THEN ProfileFails(got.err) /\ UNCHANGED p_aux
           ELSE /\ p_aux' = [p_aux EXCEPT !.baseline_df = got.df]
                /\ p_pc' = "call_drift"
                /\ UNCHANGED p_resp
    /\ UNCHANGED <<store, p_req>>

\* the call detect_drift(baseline_df, current_df)
ProfileCallDrift ==
    /\ p_pc = "call_drift"
    /\ d_pc = "idle"
    /\ d_in' = [baseline |-> p_aux.baseline_df, current |-> p_aux.current_df]
    /\ d_pc' = "start"
    /\ p_pc' = "in_drift"
    /\ UNCHANGED <<store, p_req, p_aux, p_resp, d_out>>

\* drift_result = the value detect_drift returns, or the exception it raises
ProfileDriftDone ==
    /\ p_pc = "in_drift"
    /\ d_pc = "done"
    /\ IF d_out.error # ""
       THEN ProfileFails(d_out.error) /\ UNCHANGED p_aux
       ELSE /\ p_aux' = [p_aux EXCEPT !.drift_result =
                            [what |-> "drift", report |-> d_out.report]]
            /\ p_pc' = "upload_drift"
            /\ UNCHANGED p_resp
    /\ UNCHANGED <<store, p_req, d_pc, d_in, d_out>>

\* drift_url = upload_json_to_gcs(drift_result, bucket, drift_blob)
ProfileUploadDrift ==
    /\ p_pc = "upload_drift"
    /\ LET drift_blob == ReportBlob(p_req.current_blob, "_drift")
       IN  IF JsonDumpsRaises(p_aux.drift_result)
           THEN ProfileFails("TypeError") /\ UNCHANGED <<store, p_aux>>
           ELSE \E put_ok \in PutOutcomes :
                   IF put_ok
                   THEN /\ store' = Put(store, ObjectKey(p_req.bucket_name, drift_blob),
                                        Json(p_aux.drift_result))
                        /\ p_aux' = [p_aux EXCEPT !.drift_url =
                                        S3Path(p_req.bucket_name, drift_blob)]
                        /\ p_pc' = "return"
                        /\ UNCHANGED p_resp
                   ELSE ProfileFails("ClientError") /\ UNCHANGED <<store, p_aux>>
    /\ UNCHANGED p_req

\* return result
ProfileReturn ==
    /\ p_pc = "return"
    /\ p_resp' = [NoResp EXCEPT !.status = 200, !.outcome = "success"]
    /\ p_pc' = "done"
    /\ UNCHANGED <<store, p_req, p_aux>>

-----------------------------------------------------------------------------
(* Input datasets.                                                           *)

Seqs(S, n) == [1..n -> S]

NumCells == {Num(v) : v \in 0..MaxVal} \cup {NaN}
TextCells == {<<"a">>, <<"b">>, <<"2020-01-01">>, NA}

\* a long column: BigRows rows, the first MaxSmallRows free, the rest one repeated cell
Long(prefix, fill) == [r \in 1..BigRows |-> IF r <= Len(prefix) THEN prefix[r] ELSE fill]

NumericInputs ==
    UNION {Seqs(NumCells, n) : n \in 1..MaxSmallRows}
        \cup {Long(p, f) : p \in Seqs(NumCells, MaxSmallRows), f \in NumCells}

\* a long text column cycling through k categories, the first cell missing or not
Cycle(k, first_missing) ==
    [r \in 1..BigRows |-> IF first_missing /\ r = 1 THEN NA
                          ELSE <<TextOrder[3 + ((r - 1) % k)]>>]

TextInputs ==
    UNION {Seqs(TextCells, n) : n \in 1..MaxSmallRows}
        \cup {Cycle(k, m) : k \in 1..(MaxOneHot + 1), m \in BOOLEAN}

\* the dtypes a reader gives a numeric column: int64 cannot hold NaN
InputDtypes(vals) ==
    IF \E r \in DOMAIN vals : IsNaN(vals[r]) THEN {"float64", "float32"}
    ELSE {"int64", "float64", "float32"}

ColX(vals, dtype) == [name |-> <<"x">>, dtype |-> dtype, vals |-> vals]
ColC(vals) == [name |-> <<"c">>, dtype |-> "object", vals |-> vals]
ColZ(n) == [name |-> <<"z">>, dtype |-> "float64", vals |-> [r \in 1..n |-> NaN]]

PlainNumeric(n) == [r \in 1..n |-> Num(r % (MaxVal + 1))]
PlainText(n) == [r \in 1..n |-> IF r % 2 = 1 THEN <<"a">> ELSE <<"b">>]

\* a column called like the first one-hot column of c
ColC0(vals, dtype) == [name |-> OneHotName(<<"c">>, 0), dtype |-> dtype, vals |-> vals]

\* datasets beyond the families above: a column whose range 49 is not scaled
\* to exactly 1, the column 1, 2, 3, 4, 5, 100 with one value far out, and a
\* numeric or text column c_0 before the text column c
ScenarioInputs ==
    {<<ColX(<<Num(0), Num(49)>>, dt), ColC(PlainText(2))>> : dt \in {"int64", "float64"}}
    \cup {<<ColX(<<Num(1), Num(2), Num(3), Num(4), Num(5), Num(100)>>, dt)>> :
              dt \in {"int64", "float64"}}
    \cup {<<ColC0(PlainNumeric(2), "float64"), ColC(PlainText(2))>>,
          <<ColC0(PlainText(2), "object"), ColC(PlainText(2))>>}

ColY(vals) == [name |-> <<"y">>, dtype |-> "float64", vals |-> vals]

\* a column of HugeRows rows: first zeros, then twos, and ones in the rest
Spread3(zeros, twos) ==
    [r \in 1..HugeRows |-> IF r <= zeros THEN Num(0)
                           ELSE IF r <= zeros + twos THEN Num(2)
                           ELSE Num(1)]

\* datasets whose sample is tested for normality: a column of 43 zeros, 4 twos
\* and ones, alone or after a constant column, and a constant column alone
SampledInputs ==
    {<<ColX(Spread3(43, 4), "float64")>>,
     <<ColX(Spread3(HugeRows, 0), "float64"), ColY(Spread3(43, 4))>>,
     <<ColX(Spread3(HugeRows, 0), "float64")>>}

\* the datasets the normalization runs are checked on: every numeric column
\* beside a plain text column (with or without an all-missing column z), and
\* every text column beside a plain numeric column, and the datasets of
\* ScenarioInputs and SampledInputs
NormInputs ==
    {<<ColX(v, dt), ColC(PlainText(Len(v)))>> \o (IF z THEN <<ColZ(Len(v))>> ELSE <<>>) :
        <<v, dt, z>> \in {t \in NumericInputs \X NumberDtypes \X BOOLEAN :
                             t[2] \in InputDtypes(t[1])}}
    \cup {<<ColX(PlainNumeric(Len(t)), "int64"), ColC(t)>> : t \in TextInputs}
    \cup ScenarioInputs
    \cup SampledInputs

\* the frames detect_drift is checked on: a text column c, and before it no
\* column x or a column x of numbers (missing or not) or of text
DriftCells == {Num(0), Num(1), NaN}

DriftFrames ==
    UNION {
        {<<ColC(PlainText(n))>>, <<ColX(PlainText(n), "object"), ColC(PlainText(n))>>}
            \cup {<<ColX(v, "float64"), ColC(PlainText(n))>> : v \in Seqs(DriftCells, n)}
        : n \in 1..MaxSmallRows}

-----------------------------------------------------------------------------
(* Specifications.                                                           *)

Bucket == <<"bkt">>
RawName == <<"raw", "/", "x", ".", "parquet">>

\* store0 keeps the store as it was when the invocation began
NoAux == [entry |-> "handler", bucket |-> Bucket, s3_path |-> <<>>, input |-> <<>>,
          prev |-> <<>>, arg |-> <<>>, pvals |-> <<>>, method |-> "",
          outliers |-> <<>>,
          output_path |-> <<>>,
          store0 |-> NoStore]

ProfileIdle ==
    /\ p_pc = "idle"
    /\ p_req = <<>>
    /\ p_aux = NoProfileAux
    /\ p_resp = NoResp

DriftIdle ==
    /\ d_pc = "idle"
    /\ d_in = <<>>
    /\ d_out = <<>>

Normalize2Idle ==
    /\ n2_pc = "idle"
    /\ n2_path = <<>>
    /\ n2_df = <<>>
    /\ n2_aux = NoAux2
    /\ n2_resp = NoResp

NormalizeIdle ==
    /\ n_pc = "idle"
    /\ n_name = <<>>
    /\ n_df = <<>>
    /\ n_aux = NoAux
    /\ n_resp = NoResp

\* one normalize request for raw/x.parquet, the blob holding any of the input datasets
InitNorm ==
    /\ \E df \in NormInputs : store = Put(NoStore, ObjectKey(Bucket, RawName), Table(df))
    /\ n_pc = "request"
    /\ n_name = RawName
    /\ n_df = <<>>
    /\ n_aux = [NoAux EXCEPT !.store0 = store]
    /\ n_resp = NoResp
    /\ ProfileIdle
    /\ DriftIdle
    /\ Normalize2Idle

ProfileUnchanged == UNCHANGED <<p_pc, p_req, p_aux, p_resp>>
DriftUnchanged == UNCHANGED <<d_pc, d_in, d_out>>
Normalize2Unchanged == UNCHANGED <<n2_pc, n2_path, n2_df, n2_aux, n2_resp>>

NextNorm ==
    \/ NormalizeHandler /\ ProfileUnchanged /\ DriftUnchanged /\ Normalize2Unchanged
    \/ LoadFile /\ ProfileUnchanged /\ DriftUnchanged /\ Normalize2Unchanged
    \/ RepairStep /\ ProfileUnchanged /\ DriftUnchanged /\ Normalize2Unchanged
    \/ DetectStep /\ ProfileUnchanged /\ DriftUnchanged /\ Normalize2Unchanged
    \/ CleanStep /\ ProfileUnchanged /\ DriftUnchanged /\ Normalize2Unchanged
    \/ EncodeStep /\ ProfileUnchanged /\ DriftUnchanged /\ Normalize2Unchanged
    \/ ScaleStep /\ ProfileUnchanged /\ DriftUnchanged /\ Normalize2Unchanged
    \/ SaveStep /\ ProfileUnchanged /\ DriftUnchanged /\ Normalize2Unchanged
    \/ ReturnStep /\ ProfileUnchanged /\ DriftUnchanged /\ Normalize2Unchanged

SpecNorm == InitNorm /\ [][NextNorm]_vars

\* one detect_drift(baseline_df, current_df) over any two frames
InitDrift ==
    /\ store = NoStore
    /\ NormalizeIdle
    /\ ProfileIdle
    /\ Normalize2Idle
    /\ d_pc = "start"
    /\ \E b \in DriftFrames, c \in DriftFrames : d_in = [baseline |-> b, current |-> c]
    /\ d_out = <<>>

NormalizeUnchanged == UNCHANGED <<n_pc, n_name, n_df, n_aux, n_resp>>

NextDrift ==
    \/ DriftStart /\ NormalizeUnchanged /\ ProfileUnchanged /\ UNCHANGED store /\ Normalize2Unchanged
    \/ DriftColumn /\ NormalizeUnchanged /\ ProfileUnchanged /\ UNCHANGED store /\ Normalize2Unchanged
    \/ DriftReturn /\ NormalizeUnchanged /\ ProfileUnchanged /\ UNCHANGED store /\ Normalize2Unchanged

SpecDrift == InitDrift /\ [][NextDrift]_vars

\* the service: one request, a normalize request (through normalize_handler, or
\* normalize_file called directly) or a profile request, on a store that holds
\* the named blobs or not
Dirs == {<<>>, <<"raw", "/">>, <<"d", "raw", "/">>, <<"raw", "/", "raw", "/">>,
         <<"normalized", "/">>}
Exts == {<<".", "csv">>, <<".", "CSV">>, <<".", "xlsx">>, <<".", "xls">>,
         <<".", "parquet">>, <<".", "txt">>, <<>>}
Names == {d \o <<"x">> \o e : d \in Dirs, e \in Exts}
BucketNames == {Bucket, <<"my", "raw">>}

\* the datasets of the blobs: one row, a numeric column and a text column
ServiceFrames == {f \in NormInputs : NRows(f) = 1 /\ Len(f) = 2 /\ f[1].dtype = "int64"}
\* the datasets profiled: one row, among them a frame whose numeric column
\* and whose text column hold no present value (a Parquet column of nulls)
ProfileFrames ==
    {f \in DriftFrames : NRows(f) = 1} \cup {<<ColX(<<NaN>>, "float64"), ColC(<<NA>>)>>}

\* no blob: every dataset of the model has a column
Absent == <<>>

\* the store holding body under key, or nothing when the blob is absent
StoreWith(st, key, body) == IF body = Absent THEN st ELSE Put(st, key, Table(body))

InitNormalizeRequest ==
    /\ \E entry \in {"handler", "direct"} :
       \E bucket \in BucketNames \cup {<<>>} :
       \E name \in Names \cup {<<>>} :
       \E body \in ServiceFrames \cup {Absent} :
          /\ (bucket = <<>> \/ name = <<>>) => (entry = "handler" /\ body = Absent)
          /\ store = StoreWith(NoStore, ObjectKey(bucket, name), body)
          /\ n_pc = IF entry = "handler" THEN "request" ELSE "load"
          /\ n_name = name
          /\ n_aux = [NoAux EXCEPT !.entry = entry, !.bucket = bucket,
                                   !.s3_path = IF entry = "handler" THEN <<>>
                                               ELSE S3Path(bucket, name),
                                   !.store0 = store]
    /\ n_df = <<>>
    /\ n_resp = NoResp
    /\ ProfileIdle
    /\ DriftIdle
    /\ Normalize2Idle

CurrentBlobs == {<<"raw", "/", "x", ".", "csv">>, <<"x", ".", "parquet">>,
                 <<"x", ".", "xlsx">>, <<"x", ".", "txt">>}
BaselineBlobs == {<<"b", ".", "csv">>, <<"b", ".", "xlsx">>}

InitProfileRequest ==
    /\ \E current_blob \in CurrentBlobs :
       \E baseline_blob \in BaselineBlobs \cup {<<>>} :
       \E current \in ProfileFrames \cup {Absent} :
       \E baseline \in ProfileFrames \cup {Absent} :
          /\ baseline_blob = <<>> => baseline = Absent
          /\ store = StoreWith(StoreWith(NoStore, ObjectKey(Bucket, current_blob), current),
                               ObjectKey(Bucket, baseline_blob), baseline)
          /\ p_req = [bucket_name |-> Bucket, current_blob |-> current_blob,
                      baseline_blob |-> baseline_blob]
          /\ p_aux = [NoProfileAux EXCEPT !.store0 = store]
    /\ p_pc = "load_current"
    /\ p_resp = NoResp
    /\ NormalizeIdle
    /\ DriftIdle
    /\ Normalize2Idle

Init == InitNormalizeRequest \/ InitProfileRequest

Next ==
    \/ NormalizeHandler /\ ProfileUnchanged /\ DriftUnchanged /\ Normalize2Unchanged
    \/ LoadFile /\ ProfileUnchanged /\ DriftUnchanged /\ Normalize2Unchanged
    \/ RepairStep /\ ProfileUnchanged /\ DriftUnchanged /\ Normalize2Unchanged
    \/ DetectStep /\ ProfileUnchanged /\ DriftUnchanged /\ Normalize2Unchanged
    \/ CleanStep /\ ProfileUnchanged /\ DriftUnchanged /\ Normalize2Unchanged
    \/ EncodeStep /\ ProfileUnchanged /\ DriftUnchanged /\ Normalize2Unchanged
    \/ ScaleStep /\ ProfileUnchanged /\ DriftUnchanged /\ Normalize2Unchanged
    \/ SaveStep /\ ProfileUnchanged /\ DriftUnchanged /\ Normalize2Unchanged
    \/ ReturnStep /\ ProfileUnchanged /\ DriftUnchanged /\ Normalize2Unchanged
    \/ ProfileLoadCurrent /\ NormalizeUnchanged /\ DriftUnchanged /\ Normalize2Unchanged
    \/ ProfileStep /\ NormalizeUnchanged /\ DriftUnchanged /\ Normalize2Unchanged
    \/ ProfileUpload /\ NormalizeUnchanged /\ DriftUnchanged /\ Normalize2Unchanged
    \/ ProfileLoadBaseline /\ NormalizeUnchanged /\ DriftUnchanged /\ Normalize2Unchanged
    \/ ProfileCallDrift /\ NormalizeUnchanged /\ Normalize2Unchanged
    \/ ProfileDriftDone /\ NormalizeUnchanged /\ Normalize2Unchanged
    \/ ProfileUploadDrift /\ NormalizeUnchanged /\ DriftUnchanged /\ Normalize2Unchanged
    \/ ProfileReturn /\ NormalizeUnchanged /\ DriftUnchanged /\ Normalize2Unchanged
    \/ DriftStart /\ NormalizeUnchanged /\ ProfileUnchanged /\ UNCHANGED store /\ Normalize2Unchanged
    \/ DriftColumn /\ NormalizeUnchanged /\ ProfileUnchanged /\ UNCHANGED store /\ Normalize2Unchanged
    \/ DriftReturn /\ NormalizeUnchanged /\ ProfileUnchanged /\ UNCHANGED store /\ Normalize2Unchanged

Spec == Init /\ [][Next]_vars

\* two normalize requests at once, for two different blobs of one bucket: the
\* first through normalize_handler, the second a normalize_file call beside it
PairNames == {<<"raw", "/", "x", ".", "csv">>, <<"raw", "/", "x", ".", "parquet">>,
              <<"raw", "/", "y", ".", "csv">>, <<"normalized", "/", "x", ".", "csv">>,
              <<"x", ".", "csv">>}

\* the datasets of the two blobs: their normalized forms differ
PairFrames == {<<ColX(PlainNumeric(1), "int64"), ColC(<<t>>)>> :
                  t \in {<<"a">>, <<"2020-01-01">>}}

InitPair ==
    /\ \E name1 \in PairNames, name2 \in PairNames :
       \E df1 \in PairFrames, df2 \in PairFrames :
          /\ name1 # name2
          /\ store = Put(Put(NoStore, ObjectKey(Bucket, name1), Table(df1)),
                         ObjectKey(Bucket, name2), Table(df2))
          /\ n_name = name1
          /\ n_aux = [NoAux EXCEPT !.store0 = store]
          /\ n2_path = S3Path(Bucket, name2)
    /\ n_pc = "request"
    /\ n_df = <<>>
    /\ n_resp = NoResp
    /\ n2_pc = "load"
    /\ n2_df = <<>>
    /\ n2_aux = NoAux2
    /\ n2_resp = NoResp
    /\ ProfileIdle
    /\ DriftIdle

NextPair ==
    \/ NormalizeHandler /\ ProfileUnchanged /\ DriftUnchanged /\ Normalize2Unchanged
    \/ LoadFile /\ ProfileUnchanged /\ DriftUnchanged /\ Normalize2Unchanged
    \/ RepairStep /\ ProfileUnchanged /\ DriftUnchanged /\ Normalize2Unchanged
    \/ DetectStep /\ ProfileUnchanged /\ DriftUnchanged /\ Normalize2Unchanged
    \/ CleanStep /\ ProfileUnchanged /\ DriftUnchanged /\ Normalize2Unchanged
    \/ EncodeStep /\ ProfileUnchanged /\ DriftUnchanged /\ Normalize2Unchanged
    \/ ScaleStep /\ ProfileUnchanged /\ DriftUnchanged /\ Normalize2Unchanged
    \/ SaveStep /\ ProfileUnchanged /\ DriftUnchanged /\ Normalize2Unchanged
    \/ ReturnStep /\ ProfileUnchanged /\ DriftUnchanged /\ Normalize2Unchanged
    \/ Normalize2Load /\ NormalizeUnchanged /\ ProfileUnchanged /\ DriftUnchanged
    \/ Normalize2Repair /\ NormalizeUnchanged /\ ProfileUnchanged /\ DriftUnchanged
    \/ Normalize2Detect /\ NormalizeUnchanged /\ ProfileUnchanged /\ DriftUnchanged
    \/ Normalize2Clean /\ NormalizeUnchanged /\ ProfileUnchanged /\ DriftUnchanged
    \/ Normalize2Encode /\ NormalizeUnchanged /\ ProfileUnchanged /\ DriftUnchanged
    \/ Normalize2Scale /\ NormalizeUnchanged /\ ProfileUnchanged /\ DriftUnchanged
    \/ Normalize2Save /\ NormalizeUnchanged /\ ProfileUnchanged /\ DriftUnchanged

SpecPair == InitPair /\ [][NextPair]_vars

-----------------------------------------------------------------------------
(* Properties of the normalization pipeline (checked under SpecNorm).        *)

NumericCols(df) == SelectSeq(df, IsNumber)

AllCells(col, P(_)) == \A r \in DOMAIN col.vals : P(col.vals[r])

\* the blob normalize_file has written, once SaveStep has run
Written == store[ObjectKey(SplitBucketKey(n_aux.output_path).bucket,
                           SplitBucketKey(n_aux.output_path).key)].df

\* C1: whenever normalize_file completes, every cell of every numeric column of
\* the dataset it has written is a finite number (no missing / NaN cell).
C1_WrittenOutputFinite ==
    n_pc = "return" =>
        \A i \in DOMAIN Written :
            IsNumber(Written[i]) => AllCells(Written[i], LAMBDA v : ~IsNaN(v))

InUnitInterval(v) == RLe(Num(0), v) /\ RLe(v, Num(1))

IsConstant(vals) == \A r1, r2 \in DOMAIN vals : vals[r1] = vals[r2]

\* C3: after scale_numerical every cell of every numeric column lies in [0, 1],
\* and a column that was constant before it is 0 in every row.
C3_EveryNumericCellInUnitInterval ==
    n_pc = "save" =>
        \A i \in DOMAIN n_df :
            IsNumber(n_df[i]) =>
                /\ AllCells(n_df[i], InUnitInterval)
                /\ IsConstant(DropNaN(n_aux.prev[i].vals))
                      => AllCells(n_df[i], LAMBDA v : v = Num(0))

\* the columns encode_categorical has added for the column called name
OneHotOf(name) ==
    {j \in DOMAIN n_df :
        /\ ~HasCol(n_aux.prev, n_df[j].name)
        /\ Len(n_df[j].name) > Len(name) + 1
        /\ SubSeq(n_df[j].name, 1, Len(name) + 1) = name \o <<"_">>}

\* C4: a text column with k <= 10 distinct values (missing cells or not) is
\* replaced by exactly k new 0/1 columns called <name>_0 .. <name>_(k-1), of
\* which exactly one is 1 in every row, and its own name is no longer a column.
C4_OneHotHasKColumns ==
    n_pc = "scale" =>
        \A i \in DOMAIN n_aux.prev :
            LET col == n_aux.prev[i]
                k == Cardinality(Present(col))
            IN  (col.dtype = "object" /\ k <= MaxOneHot) =>
                    /\ Cardinality(OneHotOf(col.name)) = k
                    /\ {n_df[j].name : j \in OneHotOf(col.name)}
                          = {OneHotName(col.name, n) : n \in 0..(k - 1)}
                    /\ \A j \in OneHotOf(col.name) :
                          AllCells(n_df[j], LAMBDA v : v \in {Num(0), Num(1)})
                    /\ \A r \in DOMAIN col.vals :
                          Cardinality({j \in OneHotOf(col.name) :
                                          n_df[j].vals[r] = Num(1)}) = 1
                    /\ ~HasCol(n_df, col.name)

-----------------------------------------------------------------------------
(* Properties of detect_drift (checked under SpecDrift).                     *)

ReportKeys == {d_out.report[i].col : i \in DOMAIN d_out.report}

\* the names that are a numeric column of both frames
SharedNumeric(baseline_df, current_df) ==
    {baseline_df[i].name : i \in {j \in DOMAIN baseline_df :
        /\ IsNumericDtype(baseline_df[j])
        /\ HasCol(current_df, baseline_df[j].name)
        /\ IsNumericDtype(Col(current_df, baseline_df[j].name))}}

\* C5: detect_drift ends without an error for any two frames, and the keys of
\* its report are exactly the columns that are in both frames and numeric.
C5_DriftReportsSharedNumeric ==
    d_pc = "done" =>
        /\ d_out.error = ""
        /\ ReportKeys = SharedNumeric(d_in.baseline, d_in.current)

\* C6: detect_drift(A, A) reports, for every numeric column of A (missing cells
\* or not, present cells or none), psi_score 0 with drift_by_psi false and
\* ks_p_value 1 with drift_by_ks false.
C6_SelfDriftIsNull ==
    (d_pc = "done" /\ d_in.baseline = d_in.current) =>
        /\ d_out.error = ""
        /\ ReportKeys = SharedNumeric(d_in.current, d_in.current)
        /\ \A i \in DOMAIN d_out.report :
              /\ d_out.report[i].psi_score = 0
              /\ ~d_out.report[i].drift_by_psi
              /\ d_out.report[i].ks_p_value = ScoreUnit
              /\ ~d_out.report[i].drift_by_ks

\* score comparisons as the floats compare: False when the score is NaN
ScoreAbove(s, threshold) == s # ScoreNaN /\ s > threshold
ScoreBelow(s, threshold) == s # ScoreNaN /\ s < threshold

\* C7 as stated: in every entry of the report, drift_by_psi is true exactly when
\* the psi_score of the entry (rounded to 4 places) is above 0.2, and drift_by_ks
\* exactly when the ks_p_value of the entry is below 0.05.
C7_FlagsMatchReportedScores ==
    d_pc \in {"loop", "done"} =>
        \A i \in DOMAIN d_out.report :
            /\ d_out.report[i].drift_by_psi
                  <=> ScoreAbove(d_out.report[i].psi_score, PsiThreshold)
            /\ d_out.report[i].drift_by_ks
                  <=> ScoreBelow(d_out.report[i].ks_p_value, KsThreshold)

\* C7 amended: the flags are the thresholds applied to the scores before the
\* rounding: drift_by_psi is true exactly when the unrounded PSI is above 0.2
\* and drift_by_ks exactly when the unrounded p-value is below 0.05.  For the
\* rounded scores of the entry this leaves: psi_score > 0.2 implies drift_by_psi
\* implies psi_score >= 0.2, and ks_p_value < 0.05 implies drift_by_ks implies
\* ks_p_value <= 0.05.
C7_FlagsMatchUnroundedScores ==
    d_pc \in {"loop", "done"} =>
        \A i \in DOMAIN d_out.report :
            LET e == d_out.report[i]
            IN  /\ e.psi_score = Round4(d_out.psi[i])
                /\ e.ks_p_value = Round4(d_out.ks[i])
                /\ e.drift_by_psi <=> ScoreAbove(d_out.psi[i], PsiThreshold)
                /\ e.drift_by_ks <=> ScoreBelow(d_out.ks[i], KsThreshold)
                /\ ScoreAbove(e.psi_score, PsiThreshold) => e.drift_by_psi
                /\ e.drift_by_psi => ScoreAbove(e.psi_score, PsiThreshold - 1)
                /\ ScoreBelow(e.ks_p_value, KsThreshold) => e.drift_by_ks
                /\ e.drift_by_ks => ScoreBelow(e.ks_p_value, KsThreshold + 1)

\* C7 witness: an entry whose PSI is above 0.2 by less than half a rounding
\* step and whose p-value is below 0.05 by less than half a rounding step:
\* both flags are set and the entry shows 0.2 and 0.05.
C7_Witness ==
    /\ d_pc = "done"
    /\ \E i \in DOMAIN d_out.report :
          /\ d_out.psi[i] > PsiThreshold
          /\ d_out.report[i].psi_score = PsiThreshold
          /\ d_out.report[i].drift_by_psi
          /\ d_out.ks[i] < KsThreshold
          /\ d_out.report[i].ks_p_value = KsThreshold
          /\ d_out.report[i].drift_by_ks

-----------------------------------------------------------------------------
(* Properties of the two handlers (checked under Spec).                      *)

NormalizeDone == n_pc = "done"
ProfileDone == p_pc = "done"

\* the object a reference s3://bucket/key names
ObjectOf(s3_path) == ObjectKey(SplitBucketKey(s3_path).bucket, SplitBucketKey(s3_path).key)

ProfileKey == ObjectKey(p_req.bucket_name, ReportBlob(p_req.current_blob, "_profile"))
DriftKey == ObjectKey(p_req.bucket_name, ReportBlob(p_req.current_blob, "_drift"))

\* C8: a profile request with a baseline that ends in a failure has left the
\* store as it found it (no report persisted), and one that ends in success has
\* persisted the profile report and the drift report; a normalize request that
\* reports success has written its output.
C8_NoPartialSuccess ==
    /\ (ProfileDone /\ p_req.baseline_blob # <<>>) =>
          IF p_resp.outcome = "success"
          THEN /\ Exists(store, ProfileKey) /\ store[ProfileKey] = Json(p_aux.profile_result)
               /\ Exists(store, DriftKey) /\ store[DriftKey] = Json(p_aux.drift_result)
          ELSE store = p_aux.store0
    /\ (NormalizeDone /\ n_resp.outcome = "success") =>
          /\ Exists(store, ObjectOf(n_resp.output_path))
          /\ store[ObjectOf(n_resp.output_path)] = Table(n_df)

\* the formats of the loader contract: delimited text, spreadsheet, columnar binary
SupportedFormat(name) == Extension(name) \in {<<"csv">>, <<"xlsx">>, <<"xls">>, <<"parquet">>}

UnsupportedFailure(resp) == resp.outcome = "error" /\ resp.error = "Unsupported file type"
NotFoundFailure(resp) ==
    \/ resp.outcome = "not_found"
    \/ resp.outcome = "error" /\ resp.error = "ClientError"
IsFailure(resp) == resp.outcome \in {"error", "not_found", "bad_request"}

\* what C9 says of a finished request for blob `name`, given its response, the
\* store before and the store after
LoadContract(name, resp, before, after, bucket) ==
    LET found == Exists(before, ObjectKey(bucket, name))
    IN  /\ found => (UnsupportedFailure(resp) <=> ~SupportedFormat(name))
        /\ ~found => (NotFoundFailure(resp) \/ (UnsupportedFailure(resp) /\ ~SupportedFormat(name)))
        /\ (~found \/ ~SupportedFormat(name)) => (IsFailure(resp) /\ after = before)

\* C9: in a normalize request and in a profile request alike, the load of the
\* named blob ends in an unsupported-format failure exactly when the extension
\* is none of csv, xlsx, xls, parquet, and in a not-found failure when the blob
\* does not exist; either way the request is answered as a failure and the store
\* is left as it was.
C9_LoadFailuresReported ==
    /\ (NormalizeDone /\ n_name # <<>> /\ n_aux.bucket # <<>>) =>
          LoadContract(n_name, n_resp, n_aux.store0, store, n_aux.bucket)
    /\ (ProfileDone /\ p_req.baseline_blob = <<>>) =>
          LoadContract(p_req.current_blob, p_resp, p_aux.store0, store, p_req.bucket_name)

\* the destination C10 describes: each path segment raw/ of the key replaced by
\* normalized/, and _normalized put before the extension of the columnar output
SegmentReplaced(s3_path) ==
    [i \in DOMAIN s3_path |->
        IF /\ s3_path[i] = "raw"
           /\ i > 2 /\ s3_path[i - 1] = "/"
           /\ i < Len(s3_path) /\ s3_path[i + 1] = "/"
        THEN "normalized" ELSE s3_path[i]]

ExpectedOutputPath(s3_path) ==
    RsplitDotHead(SegmentReplaced(s3_path)) \o <<"_normalized", ".", "parquet">>

\* C10: the reference normalize_file returns is the source reference with its
\* raw/ path segment replaced by normalized/ and _normalized put before the
\* extension; it differs from the source reference, and the output has been
\* written under exactly the returned reference.
C10_OutputPathDerived ==
    (NormalizeDone /\ n_resp.outcome = "success") =>
        /\ n_resp.output_path = ExpectedOutputPath(n_aux.s3_path)
        /\ n_resp.output_path # n_aux.s3_path
        /\ ObjectOf(n_resp.output_path) # ObjectOf(n_aux.s3_path)
        /\ Exists(store, ObjectOf(n_resp.output_path))
        /\ store[ObjectOf(n_resp.output_path)] = Table(n_df)

-----------------------------------------------------------------------------
(* Properties of two concurrent normalize calls (checked under SpecPair).    *)

BothSucceeded ==
    /\ n_pc = "done" /\ n_resp.outcome = "success"
    /\ n2_pc = "done" /\ n2_resp.outcome = "success"

\* C11: two normalize calls for different references, interleaved in any way,
\* each leave in the store what they would leave when run alone: each has read
\* its blob as it was at the start, the two destination keys differ, and under
\* each destination key the store holds the frame that call has computed.
C11_ConcurrentCallsIndependent ==
    BothSucceeded =>
        /\ ObjectOf(n_resp.output_path) # ObjectOf(n2_resp.output_path)
        /\ n_aux.input = n_aux.store0[ObjectKey(Bucket, n_name)].df
        /\ n2_aux.input = n_aux.store0[ObjectOf(n2_path)].df
        /\ store[ObjectOf(n_resp.output_path)] = Table(n_df)
        /\ store[ObjectOf(n2_resp.output_path)] = Table(n2_df)

-----------------------------------------------------------------------------
(* Properties of the stage functions (checked under SpecNorm)               *)

\* C12: after clean_or_winsorize, encode_categorical or scale_numerical has
\* returned, the dataset object the caller passed in has the column names and
\* cells it had before the call.
C12_StageLeavesArgumentUnchanged ==
    n_pc \in {"encode", "scale", "save"} => n_aux.arg = n_aux.prev

-----------------------------------------------------------------------------
(* Properties of the profile of a column without present values (Spec)      *)

AllMissing(col) == \A r \in DOMAIN col.vals : IsMissing(col, col.vals[r])

Profiled == p_pc = "upload_profile"

\* C13: in the profile of a dataset, a column without any present value has
\* null_count = total_rows and null_percentage = 100; when it is numeric its
\* min, max, mean and std are the null value (NaN), otherwise its min_length,
\* max_length and avg_length are 0.
C13_EmptyColumnProfile ==
    Profiled =>
        LET report == p_aux.profile_result.report
        IN  \A i \in DOMAIN p_aux.current_df :
                AllMissing(p_aux.current_df[i]) =>
                    LET prof == report.columns[i]
                    IN  /\ prof.base.null_count = report.total_rows
                        /\ prof.base.null_percentage = Num(100)
                        /\ IF IsNumericDtype(p_aux.current_df[i])
                           THEN /\ prof.kind = "numeric"
                                /\ IsNaN(prof.min) /\ IsNaN(prof.max)
                                /\ IsNaN(prof.mean) /\ IsNaN(prof.std_squared)
                           ELSE /\ prof.kind = "string"
                                /\ prof.min_length = Num(0)
                                /\ prof.max_length = Num(0)
                                /\ prof.avg_length = Num(0)

-----------------------------------------------------------------------------
(* Properties of encoding and scaling again (checked under SpecNorm)        *)

\* the dataset the run is about to write: D' = scale_numerical(encode_categorical(D))
Scaled == n_pc = "save"

\* C14: encoding and scaling a dataset that is already encoded and scaled
\* changes nothing: scale_numerical(encode_categorical(D')) = D', same columns
\* and same values.
C14_EncodeScaleIdempotent ==
    Scaled =>
        LET again == EncodeCategorical(n_df)
        IN  /\ again.err = ""
            /\ ScaleNumerical(again.df) = n_df

-----------------------------------------------------------------------------
(* Properties of the column names (checked under SpecNorm)                  *)

UniqueNames(df) == \A i, j \in DOMAIN df : df[i].name = df[j].name => i = j

Encoded == n_pc \in {"scale", "save", "return"}

\* C15: the dataset encode_categorical returns, the dataset scale_numerical
\* returns and the dataset normalize_file has written never hold two columns
\* of the same name, whatever the (uniquely named) columns of the input are
\* called; an input on which a one-hot name is already taken makes the call
\* raise instead of returning a dataset.
C15_ColumnNamesUnique ==
    /\ Encoded => UniqueNames(n_df)
    /\ n_pc = "return" => UniqueNames(Written)

\* encode_categorical has returned a dataset with a new column c_0 for an
\* input that had a column c_0 already
C15_Witness ==
    /\ n_pc = "return"
    /\ HasCol(n_aux.input, OneHotName(<<"c">>, 0))
    /\ HasCol(Written, OneHotName(<<"c">>, 0))
    /\ HasCol(Written, OneHotName(OneHotName(<<"c">>, 0), 0))

-----------------------------------------------------------------------------
(* Properties of the outlier method (checked under SpecNorm)                *)

Detected == n_pc = "clean"

\* the percentage detect_outliers reports for every numeric column is the one
\* of the selected method
OneMethodForAll ==
    LET numeric == NumericCols(n_df)
    IN  /\ n_aux.method \in {"zscore", "iqr"}
        /\ DOMAIN n_aux.outliers = DOMAIN numeric
        /\ \A i \in DOMAIN numeric :
              /\ n_aux.outliers[i].col = numeric[i].name
              /\ n_aux.outliers[i].pct
                    = Rat(100 * Count(OutlierMask(numeric[i].vals, n_aux.method),
                                      LAMBDA b : b),
                          NRows(n_df))

\* C16: detect_outliers selects "zscore" exactly when at least one numeric
\* column has more than 8 non-missing values in the sample and the p-value of
\* every such column exceeds 0.05, "iqr" in every other case, and applies the
\* selected method to every numeric column.
C16_ZscoreIffEveryTestedColumnPasses ==
    Detected =>
        /\ n_aux.method = "zscore" <=>
              /\ \E i \in DOMAIN n_aux.pvals : n_aux.pvals[i] # "untested"
              /\ \A i \in DOMAIN n_aux.pvals :
                    n_aux.pvals[i] # "untested" => n_aux.pvals[i] = "high"
        /\ OneMethodForAll

\* C16 (amended): detect_outliers selects "zscore" exactly when normaltest gave
\* a p-value that is not NaN for at least one numeric column with more than 8
\* non-missing sampled values and every such p-value exceeds 0.05, "iqr" in
\* every other case, and applies the selected method to every numeric column.
C16_ZscoreIffEveryObtainedPvaluePasses ==
    Detected =>
        /\ n_aux.method = "zscore" <=>
              /\ \E i \in DOMAIN n_aux.pvals : n_aux.pvals[i] \in {"low", "high"}
              /\ \A i \in DOMAIN n_aux.pvals : n_aux.pvals[i] # "low"
        /\ OneMethodForAll

\* "zscore" has been selected although normaltest gave NaN for one column
C16_Witness ==
    /\ Detected
    /\ n_aux.method = "zscore"
    /\ \E i \in DOMAIN n_aux.pvals : n_aux.pvals[i] = "nan"
    /\ \E i \in DOMAIN n_aux.pvals : n_aux.pvals[i] = "high"

-----------------------------------------------------------------------------
(* Properties of clean_or_winsorize (checked under SpecNorm)                *)

Cleaned == n_pc = "encode"

\* the percentage detect_outliers reported for the column called name
PctOf(name) ==
    n_aux.outliers[CHOOSE j \in DOMAIN n_aux.outliers : n_aux.outliers[j].col = name].pct

InIqrFences(vals, v) ==
    RGe(v, Fences(vals, 3, 2).lower) /\ RLe(v, Fences(vals, 3, 2).upper)

\* C17: for a numeric column with a flagged percentage <= 5, clean_or_winsorize
\* sets exactly the values outside the IQR fences to missing; for a column with
\* a larger percentage it removes nothing and leaves no value outside the 5th
\* to 95th percentile range of the column.
C17_CleanOrWinsorizeBounds ==
    Cleaned =>
        \A i \in DOMAIN n_aux.prev :
            LET col == n_aux.prev[i]
                new == n_df[i].vals
            IN  IsNumber(col) =>
                    IF RLe(PctOf(col.name), Num(OutlierThreshold))
                    THEN \A r \in DOMAIN col.vals :
                            new[r] = IF InIqrFences(col.vals, col.vals[r])
                                     THEN col.vals[r] ELSE NaN
                    ELSE /\ DOMAIN new = DOMAIN col.vals
                         /\ \A r \in DOMAIN new :
                               /\ ~IsNaN(new[r])
                               /\ RGe(new[r], Quantile(col.vals, 5, 100))
                               /\ RLe(new[r], Quantile(col.vals, 95, 100))

-----------------------------------------------------------------------------
(* Properties of the date coercion (checked under SpecNorm)                 *)

Repaired == n_pc = "detect"

\* C18: a text column (with a present value) is converted to datetime exactly
\* when more than half of its non-missing values parse as dates; otherwise the
\* column and its values stay as they were.
C18_DatesCoercedOverHalfOfPresent ==
    Repaired =>
        \A i \in DOMAIN n_aux.prev :
            LET col == n_aux.prev[i]
                parsed == Count(col.vals, LAMBDA v : ToDatetime(v) # NaT)
                present == Count(col.vals, LAMBDA v : v # NA)
            IN  (col.dtype = "object" /\ present > 0) =>
                    IF 2 * parsed > present
                    THEN /\ Col(n_df, col.name).dtype = "datetime64"
                         /\ Col(n_df, col.name).vals
                               = [r \in DOMAIN col.vals |-> ToDatetime(col.vals[r])]
                    ELSE Col(n_df, col.name) = col

-----------------------------------------------------------------------------
(* Properties of the scaled one-hot columns (checked under SpecNorm)        *)

\* the names encode_categorical can give the one-hot columns of a column
OneHotNames(name) == {OneHotName(name, k) : k \in 0..MaxOneHot}

\* the one-hot columns created for the column called name, told by their names
\* (none when the loaded dataset has a column of such a name itself)
CreatedFor(name) ==
    IF \E i \in DOMAIN n_aux.input : n_aux.input[i].name \in OneHotNames(name) THEN {}
    ELSE {j \in DOMAIN n_aux.prev :
             /\ n_aux.prev[j].name \in OneHotNames(name)
             /\ n_aux.prev[j].dtype = "float64"}

\* C19: scale_numerical leaves every value of every one-hot column as
\* encode_categorical made it (0 or 1), also for a text column with a single
\* distinct value, so in every row exactly one of the one-hot columns of a
\* text column is 1 in the dataset to be written.
C19_OneHotUnchangedByScaling ==
    Scaled =>
        \A i \in DOMAIN n_aux.input :
            LET created == CreatedFor(n_aux.input[i].name)
            IN  (n_aux.input[i].dtype = "object" /\ created # {}) =>
                    /\ \A j \in created : n_df[j].vals = n_aux.prev[j].vals
                    /\ \A r \in 1..NRows(n_df) :
                          Cardinality({j \in created : n_df[j].vals[r] = Num(1)}) = 1

-----------------------------------------------------------------------------
(* Properties linking detect_outliers and clean_or_winsorize (SpecNorm)     *)

\* C20: for every numeric column with a flagged percentage <= 5, the rows
\* clean_or_winsorize sets to missing are exactly the rows detect_outliers
\* flagged in that column under the method it selected.
C20_RemovedRowsAreFlaggedRows ==
    Cleaned =>
        \A i \in DOMAIN n_aux.prev :
            LET col == n_aux.prev[i]
            IN  (IsNumber(col) /\ RLe(PctOf(col.name), Num(OutlierThreshold))) =>
                    {r \in DOMAIN col.vals : IsNaN(n_df[i].vals[r]) /\ ~IsNaN(col.vals[r])}
                        = {r \in DOMAIN col.vals : OutlierMask(col.vals, n_aux.method)[r]}

====
